---------------------------- MODULE Spec2Model ----------------------------
(***************************************************************************)
(* The install / update pipeline of PluginMarket (src/main.py):            *)
(* install_plugin -> manage_plugin -> get_git_repo -> load_plugin.         *)
(*                                                                         *)
(* One request is one run of the install_plugin handler (is_update=FALSE,  *)
(* followed by load_plugin) or one call of manage_plugin(is_update=TRUE).  *)
(* The handlers are asyncio coroutines: the code between two awaited       *)
(* network calls runs without interruption, so one action is the code from *)
(* one await to the next.  The awaits are the release lookup (line 490),   *)
(* asyncio.gather of the probes (461), each download GET (530), and the    *)
(* host's load (570) and reload (574).                                     *)
(*                                                                         *)
(* A plugin key is the name "p" followed by k "_backup" suffixes, written  *)
(* k; directory plugins_dir/<key> is written as the path k.                *)
(*                                                                         *)
(* Faults: every network call may fail; ZipFile, extractall and the        *)
(* rmtree / move of the swap (lines 547-562) may raise.  The backup copy   *)
(* (423-425), the rollback (431-436) and the scratch cleanup (565-566) are *)
(* taken to complete.  The local variables of a coroutine are reset when   *)
(* it returns.                                                             *)
(***************************************************************************)
EXTENDS Naturals, Sequences, FiniteSets

\* ------------------------------------------------------------- bounds
MaxRequests == 2
NumMirrors == 3
MaxLatency == 2
MaxSuffix == 1

Requests == 1..MaxRequests
Keys == 0..MaxSuffix
Paths == 0..(MaxSuffix + 1)
ScratchNames == 1..MaxRequests
Latencies == 1..MaxLatency
\* float("inf"): greater than every measured latency
Inf == MaxLatency + 1
\* the empty prefix "" of attempt_prefixes: the direct download
Direct == 0

VARIABLES
    proxy_list,     \* config["proxy_list"]: sequence of mirror prefixes
    fs,             \* path -> directory tree under plugins_dir
    tmpdirs,        \* the scratch directories (tempfile.mkdtemp) that exist
    pc,             \* request -> the await it is suspended at
    plugin_key,     \* request -> plugin_key
    is_update,      \* request -> is_update
    temp_dir,       \* request -> its scratch directory (0: none)
    base_download_url, \* request -> "" | "release" | "head"
    results,        \* request -> latency per probe of proxy_list (0: pending)
    fastest_proxies, \* request -> what _get_fastest_proxies returned
    attempt_prefixes, \* request -> fastest_proxies + [""]
    idx,            \* request -> position of the loop over attempt_prefixes
    last_error,     \* request -> <<prefix, error>> of the last failed GET
    result,         \* request -> "none" | "ok" | "failed"
    error,          \* request -> the exception that ended it
    pre,            \* request -> tree at target_path when the request began
    calls,          \* request -> the network / host calls it issued, in order
    api_res,        \* request -> what the release lookup answered ("": not yet)
    load_error,     \* request -> the exception `e` of plugin_manager.load ("": none)
    reported,       \* request -> the text of the exception that ended it
    messages        \* request -> what the install_plugin handler yielded

vars == <<proxy_list, fs, tmpdirs, pc, plugin_key, is_update, temp_dir,
          base_download_url, results, fastest_proxies, attempt_prefixes, idx,
          last_error, result, error, pre, calls, api_res, load_error,
          reported, messages>>

\* ------------------------------------------------------- directory trees
Absent == [kind |-> "absent", owner |-> 0, via |-> 0]
Partial == [kind |-> "partial", owner |-> 0, via |-> 0]
\* the tree that was installed at path p before any request
Orig(p) == [kind |-> "orig", owner |-> p, via |-> 0]
\* the root folder of the archive request r downloaded through prefix p
ArchRoot(r, p) == [kind |-> "arch", owner |-> r, via |-> p]
Exists(t) == t.kind # "absent"

TargetPath(k) == k
BackupPath(k) == k + 1

\* ----------------------------------------------------------- calls
Call(op, prefix, url) == [op |-> op, prefix |-> prefix, url |-> url]
NoError == <<0, "none">>
NoException == [kind |-> "none", last |-> NoError]
Exception(kind, last) == [kind |-> kind, last |-> last]
\* plugin_manager.load(specified_dir_name=name) and
\* plugin_manager.reload(specified_plugin_name=name): the name is carried
\* in the prefix field
HostCall(op, name) == Call(op, name, "plugin")

\* ------------------------------------------------------ error texts
\* The text of an exception as install_plugin receives it: the wrapper
\* that names what went wrong, and the messages embedded in it.
NoReport == [wrapper |-> "", load |-> "", reload |-> ""]
\* line 437: "下载插件 {plugin_key} 时出错: {e}", whatever get_git_repo raised
DownloadReport == [wrapper |-> "download", load |-> "", reload |-> ""]
\* a RuntimeError that embeds only the message of reload
ActivateReportReloadOnly(e, reload_err) ==
    [wrapper |-> "activate", load |-> "", reload |-> reload_err]

\* line 577: "加载插件失败: {e}, 重载也失败: {reload_err}"
ActivateReport(e, reload_err) ==
    [wrapper |-> "activate", load |-> e, reload |-> reload_err]

\* --------------------------------------------------- install_plugin
\* line 361: the handler announces the installation; manage_plugin called
\* with is_update=True has no handler around it
Started(upd) == IF upd THEN <<>> ELSE <<"start">>
\* a handler that yields the success message however the try block ended
HandlerMessageAlways(res) == "success"

\* lines 366-368 and 371-373
HandlerMessage(res) == IF res = "ok" THEN "success" ELSE "failure"
\* lines 359-373: one more message when the try block is left
Handler(said, res) ==
    IF said = <<>> THEN <<>> ELSE Append(said, HandlerMessage(res))

\* -------------------------------------------------------- load_plugin
\* a handler that removes the installed directory when activation failed
AfterActivationFailureRemove(f, k) == [f EXCEPT ![TargetPath(k)] = Absent]

\* lines 371-373 and 575-577: the directories after load and reload both
\* raised; the handler only logs and yields the failure message
AfterActivationFailure(f, k) == f

LoadErrors == {"load_a", "load_b"}
ReloadErrors == {"reload_a", "reload_b"}

\* ------------------------------------------------------ manage_plugin
\* a backup taken by renaming target_path instead of copying it
TakeBackupByMove(f, k) ==
    [f EXCEPT ![BackupPath(k)] = f[TargetPath(k)], ![TargetPath(k)] = Absent]

\* lines 423-425: drop a stale backup, copy target_path to backup_path
TakeBackup(f, k) == [f EXCEPT ![BackupPath(k)] = f[TargetPath(k)]]

\* a rollback that moves the backup without first removing what is left of
\* target_path: shutil.move then puts the backup inside the existing directory
RollbackNoRemove(f, k, upd) ==
    IF upd /\ Exists(f[BackupPath(k)])
    THEN IF Exists(f[TargetPath(k)])
         THEN [f EXCEPT ![BackupPath(k)] = Absent]
         ELSE [f EXCEPT ![TargetPath(k)] = f[BackupPath(k)],
                        ![BackupPath(k)] = Absent]
    ELSE IF ~upd /\ Exists(f[TargetPath(k)])
         THEN [f EXCEPT ![TargetPath(k)] = Absent]
         ELSE f

\* an except branch without the cleanup of lines 435-436: what a failed
\* installation left at target_path stays
RollbackUpdateOnly(f, k, upd) ==
    IF upd /\ Exists(f[BackupPath(k)])
    THEN [f EXCEPT ![TargetPath(k)] = f[BackupPath(k)],
                   ![BackupPath(k)] = Absent]
    ELSE f

\* lines 430-436: the except branch of manage_plugin
Rollback(f, k, upd) ==
    IF upd /\ Exists(f[BackupPath(k)])
    THEN [f EXCEPT ![TargetPath(k)] = f[BackupPath(k)],
                   ![BackupPath(k)] = Absent]
    ELSE IF ~upd /\ Exists(f[TargetPath(k)])
         THEN [f EXCEPT ![TargetPath(k)] = Absent]
         ELSE f

\* ------------------------------------------------ _get_fastest_proxies
\* sorted(..., key=lambda x: x[1]) is stable: an element goes after every
\* element whose latency is not greater
RECURSIVE InsertByLatency(_, _)
InsertByLatency(s, x) ==
    IF s = <<>> THEN <<x>>
    ELSE IF s[Len(s)][2] <= x[2] THEN Append(s, x)
    ELSE Append(InsertByLatency(SubSeq(s, 1, Len(s) - 1), x), s[Len(s)])

\* insertion sort; the sorted front is computed once per element
RECURSIVE SortedByLatency(_)
SortedByLatency(s) ==
    IF s = <<>> THEN <<>>
    ELSE CHOOSE out \in {InsertByLatency(front, s[Len(s)]) :
                             front \in {SortedByLatency(SubSeq(s, 1, Len(s) - 1))}} : TRUE

\* a filter that keeps the probes that failed
IsWorkingAlways(res) == TRUE

IsWorking(res) == res[2] # Inf

\* the working proxies in configuration order, not sorted
WorkingProxiesUnsorted(res) == SelectSeq(res, IsWorking)

\* lines 463-465
WorkingProxies(res) == SortedByLatency(SelectSeq(res, IsWorking))

\* lines 455-472; res is what asyncio.gather returned: <<proxy, latency>>
\* per configured proxy, in configuration order
GetFastestProxies(res) ==
    IF res = <<>> THEN <<>>
    ELSE LET w == WorkingProxies(res) IN [i \in 1..Len(w) |-> w[i][1]]

\* the direct download tried first
AttemptPrefixesDirectFirst(fastest) == <<Direct>> \o fastest

\* line 514
AttemptPrefixes(fastest) == fastest \o <<Direct>>

\* lines 520-524
DownloadUrl(prefix, base) == Call("get", prefix, base)

\* a scratch directory with a fixed name, the same for every call
MkDTempFixed == CHOOSE n \in ScratchNames : \A m \in ScratchNames : n <= m

\* tempfile.mkdtemp(): a directory that did not exist
MkDTemp == CHOOSE n \in ScratchNames : n \notin tmpdirs /\
               \A m \in ScratchNames : m \notin tmpdirs => n <= m


\* ------------------------------------------------------- get_git_repo
\* a resolver that takes the release archive whenever the lookup answered 200
BaseDownloadUrlAny200(res) ==
    IF res \in {"zipball", "no_field"} THEN "release" ELSE "head"

\* lines 493-511: the release's zipball_url, else the default-branch archive
BaseDownloadUrl(res) == IF res = "zipball" THEN "release" ELSE "head"

LookupOutcomes == {"zipball", "no_field", "status", "error"}
DownloadErrors == {"not_found", "error"}
ArchiveShapes == {"bad", "empty", "noroot", "good"}
Faults == {"none", "extract", "rmtree_kept", "rmtree_partial",
           "move_absent", "move_partial"}
\* the faults that can show with an archive of a given shape: a bad or empty
\* archive is rejected before any directory is touched
FaultsFor(shape) ==
    IF shape \in {"bad", "empty"} THEN {"none"}
    ELSE IF shape = "noroot" THEN {"none", "extract"}
    ELSE Faults

\* a loop that steps over a prefix
NextCallSkip(prefixes, i, base, err) ==
    IF i + 1 < Len(prefixes) THEN <<DownloadUrl(prefixes[i + 2], base)>> ELSE <<>>

\* a loop that, on a not-found answer for the default-branch archive, asks
\* the same prefix again for the branch "main"
NextCallRetryMain(prefixes, i, base, err) ==
    IF i < Len(prefixes)
    THEN IF err = "not_found" /\ base = "head"
         THEN <<DownloadUrl(prefixes[i], "main")>>
         ELSE <<DownloadUrl(prefixes[i + 1], base)>>
    ELSE <<>>

\* a loop that starts over at the first prefix when the last one failed
NextCallWrap(prefixes, i, base, err) ==
    <<DownloadUrl(prefixes[(i % Len(prefixes)) + 1], base)>>

\* lines 518-540, the `continue`: the GET of the next prefix, if one is left
NextCall(prefixes, i, base, err) ==
    IF i < Len(prefixes) THEN <<DownloadUrl(prefixes[i + 1], base)>> ELSE <<>>

\* a swap that does not remove an existing target_path first: shutil.move
\* then puts the archive's root folder inside the old directory
InstallArchiveNested(old, r, prefix, shape, fault) ==
    IF shape = "bad" THEN [tree |-> old, err |-> "bad_zip"]
    ELSE IF shape = "empty" THEN [tree |-> old, err |-> "empty_zip"]
    ELSE IF fault = "extract" THEN [tree |-> old, err |-> "extract_io"]
    ELSE IF shape = "noroot" THEN [tree |-> old, err |-> "no_root"]
    ELSE IF fault = "move_absent" THEN [tree |-> old, err |-> "swap_move"]
    ELSE IF fault = "move_partial" THEN [tree |-> Partial, err |-> "swap_move"]
    ELSE IF Exists(old)
         THEN [tree |-> [kind |-> "nested", owner |-> r, via |-> prefix],
               err |-> "none"]
    ELSE [tree |-> ArchRoot(r, prefix), err |-> "none"]

\* lines 547-563: open the archive, extract it into the scratch directory,
\* replace target_path by the archive's root folder.  Gives the tree at
\* target_path afterwards and the exception raised ("none": no exception).
InstallArchive(old, r, prefix, shape, fault) ==
    IF shape = "bad" THEN [tree |-> old, err |-> "bad_zip"]
    ELSE IF shape = "empty" THEN [tree |-> old, err |-> "empty_zip"]
    ELSE IF fault = "extract" THEN [tree |-> old, err |-> "extract_io"]
    ELSE IF shape = "noroot" THEN [tree |-> old, err |-> "no_root"]
    ELSE IF Exists(old) /\ fault = "rmtree_kept"
         THEN [tree |-> old, err |-> "swap_rmtree"]
    ELSE IF Exists(old) /\ fault = "rmtree_partial"
         THEN [tree |-> Partial, err |-> "swap_rmtree"]
    ELSE IF fault = "move_absent" THEN [tree |-> Absent, err |-> "swap_move"]
    ELSE IF fault = "move_partial" THEN [tree |-> Partial, err |-> "swap_move"]
    ELSE [tree |-> ArchRoot(r, prefix), err |-> "none"]

\* manage_plugin without the check of lines 421-422
CannotUpdateNever(f, k, upd) == FALSE

\* lines 420-422
CannotUpdate(f, k, upd) == upd /\ ~Exists(f[TargetPath(k)])

\* lines 420-425
BackupIfUpdate(f, k, upd) == IF upd THEN TakeBackup(f, k) ELSE f

\* lines 426-429: what manage_plugin does to the directories when
\* get_git_repo returned
AfterSuccess(f, k, upd) == f

\* ------------------------------------------------------------- Init
Init ==
    /\ proxy_list \in {[i \in 1..n |-> i] : n \in 0..NumMirrors}
    /\ fs \in {[p \in Paths |-> IF p \in S THEN Orig(p) ELSE Absent] : S \in SUBSET Paths}
    /\ tmpdirs = {}
    /\ pc = [r \in Requests |-> "idle"]
    /\ plugin_key = [r \in Requests |-> 0]
    /\ is_update = [r \in Requests |-> FALSE]
    /\ temp_dir = [r \in Requests |-> 0]
    /\ base_download_url = [r \in Requests |-> ""]
    /\ results = [r \in Requests |-> <<>>]
    /\ fastest_proxies = [r \in Requests |-> <<>>]
    /\ attempt_prefixes = [r \in Requests |-> <<>>]
    /\ idx = [r \in Requests |-> 0]
    /\ last_error = [r \in Requests |-> NoError]
    /\ result = [r \in Requests |-> "none"]
    /\ error = [r \in Requests |-> NoException]
    /\ pre = [r \in Requests |-> Absent]
    /\ calls = [r \in Requests |-> <<>>]
    /\ api_res = [r \in Requests |-> ""]
    /\ load_error = [r \in Requests |-> ""]
    /\ reported = [r \in Requests |-> NoReport]
    /\ messages = [r \in Requests |-> <<>>]

\* ------------------------------------------------------------ actions
\* The request ends: manage_plugin / the handler returns or raises.
Finish(r, res, exc, rep, said) ==
    /\ pc' = [pc EXCEPT ![r] = "done"]
    /\ result' = [result EXCEPT ![r] = res]
    /\ error' = [error EXCEPT ![r] = exc]
    /\ reported' = [reported EXCEPT ![r] = rep]
    /\ messages' = [messages EXCEPT ![r] = Handler(said, res)]
    /\ load_error' = [load_error EXCEPT ![r] = ""]

\* get_git_repo returns or raises: the finally removes the scratch
\* directory (564-566) and the locals are gone.
LeaveGetGitRepo(r) ==
    /\ tmpdirs' = tmpdirs \ {temp_dir[r]}
    /\ temp_dir' = [temp_dir EXCEPT ![r] = 0]
    /\ base_download_url' = [base_download_url EXCEPT ![r] = ""]
    /\ fastest_proxies' = [fastest_proxies EXCEPT ![r] = <<>>]
    /\ attempt_prefixes' = [attempt_prefixes EXCEPT ![r] = <<>>]
    /\ idx' = [idx EXCEPT ![r] = 0]
    /\ last_error' = [last_error EXCEPT ![r] = NoError]
    /\ api_res' = [api_res EXCEPT ![r] = ""]

\* get_git_repo raised with target_path holding `tree`: manage_plugin rolls
\* back and re-raises (430-437), install_plugin reports the failure (371-373).
Raise(r, tree, exc) ==
    /\ fs' = Rollback([fs EXCEPT ![TargetPath(plugin_key[r])] = tree],
                      plugin_key[r], is_update[r])
    /\ LeaveGetGitRepo(r)
    /\ Finish(r, "failed", exc, DownloadReport, messages[r])

\* manage_plugin is entered (lines 418-425) and get_git_repo runs up to the
\* release lookup (476-492).  Requests are numbered in the order they begin.
Start(r, k, upd, url_ok) ==
    /\ pc[r] = "idle"
    /\ \A q \in Requests : q < r => pc[q] # "idle"
    /\ plugin_key' = [plugin_key EXCEPT ![r] = k]
    /\ is_update' = [is_update EXCEPT ![r] = upd]
    /\ pre' = [pre EXCEPT ![r] = fs[TargetPath(k)]]
    /\ UNCHANGED <<proxy_list, base_download_url, results, fastest_proxies,
                   attempt_prefixes, idx, last_error, api_res>>
    /\ IF CannotUpdate(fs, k, upd)
       THEN /\ Finish(r, "failed", Exception("not_installed", NoError),
                      NoReport, Started(upd))
            /\ UNCHANGED <<fs, tmpdirs, temp_dir, calls>>
       ELSE IF ~url_ok
       THEN /\ fs' = Rollback(BackupIfUpdate(fs, k, upd), k, upd)
            /\ Finish(r, "failed", Exception("bad_url", NoError),
                      DownloadReport, Started(upd))
            /\ UNCHANGED <<tmpdirs, temp_dir, calls>>
       ELSE /\ fs' = BackupIfUpdate(fs, k, upd)
            /\ temp_dir' = [temp_dir EXCEPT ![r] = MkDTemp]
            /\ tmpdirs' = tmpdirs \cup {MkDTemp}
            /\ calls' = [calls EXCEPT ![r] = <<Call("lookup", Direct, "api")>>]
            /\ pc' = [pc EXCEPT ![r] = "lookup"]
            /\ messages' = [messages EXCEPT ![r] = Started(upd)]
            /\ UNCHANGED <<result, error, reported, load_error>>

\* The release lookup returned or raised (lines 487-511); the probes are
\* issued (453-461), or with no proxy configured the first GET is (513-532).
LookupDone(r, res) ==
    /\ pc[r] = "lookup"
    /\ api_res' = [api_res EXCEPT ![r] = res]
    /\ base_download_url' = [base_download_url EXCEPT ![r] = BaseDownloadUrl(res)]
    /\ UNCHANGED <<proxy_list, fs, tmpdirs, plugin_key, is_update, temp_dir,
                   last_error, result, error, pre, load_error, reported,
                   messages>>
    /\ IF proxy_list = <<>>
       THEN LET fastest == GetFastestProxies(<<>>)
                prefixes == AttemptPrefixes(fastest)
            IN
            /\ fastest_proxies' = [fastest_proxies EXCEPT ![r] = fastest]
            /\ attempt_prefixes' = [attempt_prefixes EXCEPT ![r] = prefixes]
            /\ idx' = [idx EXCEPT ![r] = 1]
            /\ calls' = [calls EXCEPT ![r] =
                   Append(@, DownloadUrl(prefixes[1], BaseDownloadUrl(res)))]
            /\ pc' = [pc EXCEPT ![r] = "download"]
            /\ UNCHANGED results
       ELSE /\ results' = [results EXCEPT ![r] = [i \in 1..Len(proxy_list) |-> 0]]
            /\ calls' = [calls EXCEPT ![r] =
                   @ \o [i \in 1..Len(proxy_list) |-> Call("probe", proxy_list[i], "test")]]
            /\ pc' = [pc EXCEPT ![r] = "probing"]
            /\ UNCHANGED <<fastest_proxies, attempt_prefixes, idx>>

\* One _test_proxy_latency returns (lines 439-451): a latency, or inf.
ProbeDone(r, i, lat) ==
    /\ pc[r] = "probing"
    /\ i \in 1..Len(results[r])
    /\ results[r][i] = 0
    /\ results' = [results EXCEPT ![r][i] = lat]
    /\ UNCHANGED <<proxy_list, fs, tmpdirs, pc, plugin_key, is_update, temp_dir,
                   base_download_url, fastest_proxies, attempt_prefixes, idx,
                   last_error, result, error, pre, calls, api_res,
                   load_error, reported, messages>>

\* what asyncio.gather returns (line 461)
Gathered(r) == [i \in 1..Len(results[r]) |-> <<proxy_list[i], results[r][i]>>]

\* asyncio.gather returns once one probe has returned
AnyProbeDone(r) == \E i \in 1..Len(results[r]) : results[r][i] # 0

\* asyncio.gather returns when every probe has returned (line 461)
AllProbesDone(r) == \A i \in 1..Len(results[r]) : results[r][i] # 0

\* asyncio.gather returned (line 461): the plan is built and its first GET
\* issued (463-472, 513-532).
ProbesJoined(r) ==
    /\ pc[r] = "probing"
    /\ AllProbesDone(r)
    /\ LET fastest == GetFastestProxies(Gathered(r))
           prefixes == AttemptPrefixes(fastest)
       IN
       /\ fastest_proxies' = [fastest_proxies EXCEPT ![r] = fastest]
       /\ attempt_prefixes' = [attempt_prefixes EXCEPT ![r] = prefixes]
       /\ calls' = [calls EXCEPT ![r] =
              Append(@, DownloadUrl(prefixes[1], base_download_url[r]))]
    /\ results' = [results EXCEPT ![r] = <<>>]
    /\ idx' = [idx EXCEPT ![r] = 1]
    /\ pc' = [pc EXCEPT ![r] = "download"]
    /\ UNCHANGED <<proxy_list, fs, tmpdirs, plugin_key, is_update, temp_dir,
                   base_download_url, last_error, result, error, pre,
                   api_res, load_error, reported, messages>>

\* The GET raised or raise_for_status did (lines 530-540): the next prefix
\* is tried, or the loop ends with no zip_content (542-545).
DownloadFailed(r, err) ==
    /\ pc[r] = "download"
    /\ LET e == <<attempt_prefixes[r][idx[r]], err>>
           next == NextCall(attempt_prefixes[r], idx[r], base_download_url[r], err)
       IN
       IF next # <<>>
       THEN /\ last_error' = [last_error EXCEPT ![r] = e]
            /\ idx' = [idx EXCEPT ![r] = @ + 1]
            /\ calls' = [calls EXCEPT ![r] = @ \o next]
            /\ UNCHANGED <<fs, tmpdirs, temp_dir, pc, result, error,
                           base_download_url, fastest_proxies,
                           attempt_prefixes, api_res, load_error, reported,
                           messages>>
       ELSE /\ Raise(r, fs[TargetPath(plugin_key[r])], Exception("all_failed", e))
            /\ UNCHANGED calls
    /\ UNCHANGED <<proxy_list, plugin_key, is_update, results, pre>>

\* The GET succeeded (lines 533-536): the archive is installed (547-563);
\* install_plugin goes on to load_plugin (365, 570).
DownloadSucceeded(r, shape, fault) ==
    /\ pc[r] = "download"
    /\ LET t == TargetPath(plugin_key[r])
           inst == InstallArchive(fs[t], r, attempt_prefixes[r][idx[r]], shape, fault)
       IN
       IF inst.err = "none"
       THEN /\ fs' = AfterSuccess([fs EXCEPT ![t] = inst.tree],
                                  plugin_key[r], is_update[r])
            /\ LeaveGetGitRepo(r)
            /\ IF is_update[r]
               THEN /\ Finish(r, "ok", NoException, NoReport, messages[r])
                    /\ UNCHANGED calls
               ELSE /\ pc' = [pc EXCEPT ![r] = "load"]
                    /\ calls' = [calls EXCEPT ![r] =
                           Append(@, HostCall("load", plugin_key[r]))]
                    /\ UNCHANGED <<result, error, load_error, reported,
                                   messages>>
       ELSE /\ Raise(r, inst.tree, Exception(inst.err, NoError))
            /\ UNCHANGED calls
    /\ UNCHANGED <<proxy_list, plugin_key, is_update, results, pre>>

\* plugin_manager.load returned or raised (lines 569-574)
LoadDone(r, out) ==
    /\ pc[r] = "load"
    /\ IF out = "ok"
       THEN /\ Finish(r, "ok", NoException, NoReport, messages[r])
            /\ UNCHANGED calls
       ELSE /\ pc' = [pc EXCEPT ![r] = "reload"]
            /\ load_error' = [load_error EXCEPT ![r] = out]
            /\ calls' = [calls EXCEPT ![r] =
                   Append(@, HostCall("reload", plugin_key[r]))]
            /\ UNCHANGED <<result, error, reported, messages>>
    /\ UNCHANGED <<proxy_list, fs, tmpdirs, plugin_key, is_update, temp_dir,
                   base_download_url, results, fastest_proxies,
                   attempt_prefixes, idx, last_error, pre, api_res>>

\* plugin_manager.reload returned or raised (lines 574-577)
ReloadDone(r, out) ==
    /\ pc[r] = "reload"
    /\ IF out = "ok"
       THEN /\ Finish(r, "ok", NoException, NoReport, messages[r])
            /\ UNCHANGED fs
       ELSE /\ Finish(r, "failed", Exception("activate", NoError),
                      ActivateReport(load_error[r], out), messages[r])
            /\ fs' = AfterActivationFailure(fs, plugin_key[r])
    /\ UNCHANGED <<proxy_list, tmpdirs, plugin_key, is_update, temp_dir,
                   base_download_url, results, fastest_proxies,
                   attempt_prefixes, idx, last_error, pre, calls, api_res>>

\* the steps of a request after its first
Step(r) ==
    \/ \E res \in LookupOutcomes : LookupDone(r, res)
    \/ \E i \in 1..NumMirrors, lat \in Latencies \cup {Inf} : ProbeDone(r, i, lat)
    \/ ProbesJoined(r)
    \/ \E err \in DownloadErrors : DownloadFailed(r, err)
    \/ \E shape \in ArchiveShapes : \E fault \in FaultsFor(shape) : DownloadSucceeded(r, shape, fault)
    \/ \E out \in {"ok"} \cup LoadErrors : LoadDone(r, out)
    \/ \E out \in {"ok"} \cup ReloadErrors : ReloadDone(r, out)

\* The program: requests interleave at their awaits.
Next ==
    \E r \in Requests :
        \/ \E k \in Keys, upd \in BOOLEAN, url_ok \in BOOLEAN : Start(r, k, upd, url_ok)
        \/ Step(r)

Spec == Init /\ [][Next]_vars

\* One request, run to its end from every initial directory state.
StartOne(r, k, upd, url_ok) ==
    /\ \A q \in Requests : pc[q] = "idle"
    /\ Start(r, k, upd, url_ok)

NextOne ==
    \E r \in Requests :
        \/ \E k \in Keys, upd \in BOOLEAN, url_ok \in BOOLEAN : StartOne(r, k, upd, url_ok)
        \/ Step(r)

SpecOne == Init /\ [][NextOne]_vars

\* One installation of plugin 0, with every proxy configuration, in which
\* every awaited call returns: the release lookup, the probes and the GETs
\* carry a timeout (lines 445, 490, 530), load and reload are taken to
\* return.
InitInstall ==
    /\ Init
    /\ \A p \in Paths : p # TargetPath(0) => fs[p] = Absent

NextInstall ==
    \E r \in Requests :
        \/ \E url_ok \in BOOLEAN : StartOne(r, 0, FALSE, url_ok)
        \/ Step(r)

SpecInstallFair ==
    InitInstall /\ [][NextInstall]_vars /\ WF_vars(\E r \in Requests : Step(r))

\* The program with at most one proxy configured.
InitPair == Init /\ Len(proxy_list) <= 1

SpecPair == InitPair /\ [][Next]_vars

\* Installations of one plugin with no proxy configured: the requests
\* interleave at the release lookup, the download GET, load and reload.
InitSame ==
    /\ Init
    /\ proxy_list = <<>>
    /\ \A p \in Paths : p # TargetPath(0) => fs[p] = Absent

NextSame ==
    \E r \in Requests :
        \/ \E url_ok \in BOOLEAN : Start(r, 0, FALSE, url_ok)
        \/ \E res \in LookupOutcomes : LookupDone(r, res)
        \/ \E err \in DownloadErrors : DownloadFailed(r, err)
        \/ \E shape \in ArchiveShapes : \E fault \in FaultsFor(shape) : DownloadSucceeded(r, shape, fault)
        \/ \E out \in {"ok"} \cup LoadErrors : LoadDone(r, out)
        \/ \E out \in {"ok"} \cup ReloadErrors : ReloadDone(r, out)

SpecSame == InitSame /\ [][NextSame]_vars

\* ------------------------------------------------------------- claims
Done(r) == pc[r] = "done"
InFlight(r) == pc[r] \notin {"idle", "done"}
Target(r) == TargetPath(plugin_key[r])
Backup(r) == BackupPath(plugin_key[r])
\* the exceptions get_git_repo raises
GetGitRepoErrors == {"bad_url", "all_failed", "bad_zip", "empty_zip",
                     "extract_io", "no_root", "swap_rmtree", "swap_move"}
SwapErrors == {"swap_rmtree", "swap_move"}

\* C1: an update whose get_git_repo failed after the backup was taken
\* (malformed URL, downloads exhausted, bad or empty archive, extraction
\* error, missing root directory, failed remove or move of the swap) ends
\* with target_path holding the tree it held before the update and with no
\* backup_path.
C1_RollbackRestores ==
    \A r \in Requests :
        (Done(r) /\ is_update[r] /\ error[r].kind \in GetGitRepoErrors)
            => /\ fs[Target(r)] = pre[r]
               /\ ~Exists(fs[Backup(r)])

\* an update was rolled back after the swap had begun to remove target_path
C1_Witness ==
    \E r \in Requests :
        /\ Done(r) /\ is_update[r] /\ error[r].kind \in SwapErrors
        /\ Exists(pre[r]) /\ fs[Target(r)] = pre[r] /\ ~Exists(fs[Backup(r)])

\* C2: a request that failed while resolving or downloading (malformed
\* reference, every candidate failing) leaves target_path holding what it
\* held before the request, whether is_update or not.
C2_FailureBeforeSwapKeepsTarget ==
    \A r \in Requests :
        (Done(r) /\ error[r].kind \in {"bad_url", "all_failed"})
            => fs[Target(r)] = pre[r]

\* C3: once an update that took its backup has completed, succeeded or
\* failed, backup_path does not exist.
C3_NoBackupAfterUpdate ==
    \A r \in Requests :
        (Done(r) /\ is_update[r] /\ error[r].kind # "not_installed")
            => ~Exists(fs[Backup(r)])

\* C4: two requests for the same target_path are never both between the
\* start of manage_plugin and the end of load_plugin (or of the rollback).
C4_MutualExclusion ==
    \A r1, r2 \in Requests :
        (r1 # r2 /\ InFlight(r1) /\ InFlight(r2)) => Target(r1) # Target(r2)

\* C9: a request whose downloaded archive has zero entries leaves target_path
\* holding what it held before the request, and an update leaves no
\* backup_path.
C9_EmptyArchiveKeepsTarget ==
    \A r \in Requests :
        (Done(r) /\ error[r].kind = "empty_zip")
            => /\ fs[Target(r)] = pre[r]
               /\ is_update[r] => ~Exists(fs[Backup(r)])

\* the latency gather reported for proxy p
LatencyOf(res, p) == res[CHOOSE j \in 1..Len(res) : res[j][1] = p][2]

\* out lists exactly the proxies of res whose probe succeeded, each once,
\* by ascending latency
RacerCorrect(res, out) ==
    /\ \A i \in 1..Len(out) :
           \E j \in 1..Len(res) : res[j][1] = out[i] /\ res[j][2] # Inf
    /\ \A j \in 1..Len(res) :
           res[j][2] # Inf => \E i \in 1..Len(out) : out[i] = res[j][1]
    /\ Len(out) = Cardinality({j \in 1..Len(res) : res[j][2] # Inf})
    /\ \A i, k \in 1..Len(out) :
           i < k => LatencyOf(res, out[i]) <= LatencyOf(res, out[k])

\* C5: when gather has returned, _get_fastest_proxies returns exactly the
\* proxies whose probe succeeded, ordered by ascending latency, none with
\* latency inf; with no proxy configured it returns the empty list.
C5_RacerSorted ==
    [][\A r \in Requests :
         /\ (pc[r] = "probing" /\ pc'[r] = "download")
                => RacerCorrect(Gathered(r), fastest_proxies'[r])
         /\ (pc[r] = "lookup" /\ pc'[r] = "download")
                => (proxy_list = <<>> /\ fastest_proxies'[r] = <<>>)]_vars

\* the second configured proxy answered faster than the first
C5_Witness ==
    \E r \in Requests : pc[r] = "download" /\ fastest_proxies[r] = <<2, 1>>

IsGet(c) == c.op = "get"
\* the download GETs a request issued, in order
Gets(r) == SelectSeq(calls[r], IsGet)

\* C6: the plan of a request that downloads is not empty, is the working
\* proxies in the racer's order followed by the direct download, which is
\* its last and only direct candidate, and the GET in flight is the current
\* prefix with the base archive URL.
C6_PlanEndsDirect ==
    \A r \in Requests :
        pc[r] = "download" =>
            LET a == attempt_prefixes[r] IN
            /\ Len(a) >= 1
            /\ a[Len(a)] = Direct
            /\ SubSeq(a, 1, Len(a) - 1) = fastest_proxies[r]
            /\ \A i \in 1..(Len(a) - 1) : a[i] # Direct
            /\ calls[r][Len(calls[r])] =
                   [op |-> "get", prefix |-> a[idx[r]], url |-> base_download_url[r]]
            /\ base_download_url[r] \in {"release", "head"}

\* two proxies failed the download and the direct GET is in flight
C6_Witness ==
    \E r \in Requests :
        /\ pc[r] = "download" /\ Len(attempt_prefixes[r]) = 3
        /\ idx[r] = 3 /\ calls[r][Len(calls[r])].prefix = Direct

\* C7: the GETs issued are the plan's candidates in plan order, one each, the
\* next issued after the previous failed; the tree installed is the archive
\* of the last GET issued (the first that succeeded); a request that fails
\* with every candidate failed carries the error of the last candidate, the
\* direct one, and target_path holds no extracted tree.
C7_DownloadInOrder ==
    \A r \in Requests :
        /\ pc[r] = "download" =>
               /\ Gets(r) = [i \in 1..idx[r] |->
                      [op |-> "get", prefix |-> attempt_prefixes[r][i],
                       url |-> base_download_url[r]]]
               /\ idx[r] > 1 => last_error[r][1] = attempt_prefixes[r][idx[r] - 1]
               /\ idx[r] > 1 => last_error[r][2] \in DownloadErrors
        /\ (pc[r] \in {"load", "reload"} \/ (Done(r) /\ result[r] = "ok")) =>
               /\ Gets(r) # <<>>
               /\ fs[Target(r)] = ArchRoot(r, Gets(r)[Len(Gets(r))].prefix)
        /\ (Done(r) /\ error[r].kind = "all_failed") =>
               /\ Gets(r) # <<>>
               /\ error[r].last[1] = Gets(r)[Len(Gets(r))].prefix
               /\ error[r].last[1] = Direct
               /\ error[r].last[2] \in DownloadErrors
               /\ fs[Target(r)].kind \notin {"arch", "partial"}

\* the first proxy failed, the second succeeded, the direct GET was not issued
C7_Witness ==
    \E r \in Requests :
        /\ pc[r] = "load" /\ Len(proxy_list) = 2 /\ Len(Gets(r)) = 2
        /\ Gets(r)[2].prefix # Direct
        /\ fs[Target(r)] = ArchRoot(r, Gets(r)[2].prefix)

\* the GET in flight was answered not-found
NotFound(r) ==
    /\ pc[r] = "download"
    /\ \/ last_error'[r] = <<attempt_prefixes[r][idx[r]], "not_found">>
       \/ error'[r] = Exception("all_failed",
                                <<attempt_prefixes[r][idx[r]], "not_found">>)

C10_UpdateOfMissingFailsAtOnce ==
    [][\A r \in Requests :
         (/\ pc[r] = "idle" /\ pc'[r] # "idle"
          /\ is_update'[r]
          /\ ~Exists(fs[TargetPath(plugin_key'[r])]))
             => /\ pc'[r] = "done" /\ result'[r] = "failed"
                /\ fs' = fs /\ tmpdirs' = tmpdirs /\ temp_dir' = temp_dir
                /\ calls'[r] = <<>>]_vars

\* an update of a plugin that is not installed failed, a directory at
\* backup_path left as it was
C10_Witness ==
    \E r \in Requests :
        /\ Done(r) /\ is_update[r] /\ error[r].kind = "not_installed"
        /\ ~Exists(fs[Target(r)]) /\ Exists(fs[Backup(r)])
        /\ calls[r] = <<>> /\ tmpdirs = {}

IsLoad(c) == c.op = "load"
IsReload(c) == c.op = "reload"
Loads(r) == SelectSeq(calls[r], IsLoad)
Reloads(r) == SelectSeq(calls[r], IsReload)

\* C11: activation calls load once; reload is called, once and with the
\* same name, only after load raised; the request gets past activation when
\* either of them returned; it fails in activation only when both raised,
\* and then the error embeds the message of load and the message of reload;
\* a request never issues more than one load and one reload.
C11_LoadThenReload ==
    /\ [](\A r \in Requests :
            /\ Len(Loads(r)) <= 1 /\ Len(Reloads(r)) <= 1
            /\ \A i \in 1..Len(calls[r]) :
                   calls[r][i].op \in {"load", "reload"}
                       => calls[r][i].prefix = plugin_key[r]
            /\ pc[r] = "load" => (Len(Loads(r)) = 1 /\ Reloads(r) = <<>>)
            /\ pc[r] = "reload" => load_error[r] \in LoadErrors
            /\ Reloads(r) # <<>> =>
                   /\ Len(calls[r]) >= 2
                   /\ calls[r][Len(calls[r])].op = "reload"
                   /\ calls[r][Len(calls[r]) - 1].op = "load"
            /\ (Done(r) /\ Loads(r) # <<>>) =>
                   \/ result[r] = "ok" /\ reported[r] = NoReport
                   \/ /\ result[r] = "failed" /\ error[r].kind = "activate"
                      /\ Reloads(r) # <<>>
                      /\ reported[r].wrapper = "activate"
                      /\ reported[r].load \in LoadErrors
                      /\ reported[r].reload \in ReloadErrors
            /\ (Done(r) /\ error[r].kind = "activate") => Len(Reloads(r)) = 1)
    /\ [][\A r \in Requests :
            /\ (pc[r] = "load" /\ pc'[r] = "done") =>
                   (result'[r] = "ok" /\ calls'[r] = calls[r])
            /\ (pc[r] = "load" /\ pc'[r] = "reload") =>
                   calls'[r] = Append(calls[r], HostCall("reload", plugin_key[r]))
            /\ (pc[r] = "reload" /\ pc'[r] = "done") =>
                   /\ calls'[r] = calls[r]
                   /\ result'[r] = "failed" => reported'[r].load = load_error[r]
         ]_vars

\* load raised "load_b", reload raised "reload_a": the request failed with
\* an error that embeds both
C11_Witness ==
    \E r \in Requests :
        /\ Done(r) /\ result[r] = "failed" /\ error[r].kind = "activate"
        /\ reported[r] = ActivateReport("load_b", "reload_a")
        /\ Len(Loads(r)) = 1 /\ Len(Reloads(r)) = 1

\* C12: an installation (is_update = FALSE) over a target_path that already
\* existed never ends with a partly removed or partly moved tree there:
\* when the request is over, target_path holds a complete tree (the one it
\* held before, or the root folder of the archive this request downloaded)
\* or does not exist.
C12_ReinstallNeverPartial ==
    \A r \in Requests :
        (Done(r) /\ ~is_update[r] /\ Exists(pre[r])) =>
            \/ fs[Target(r)] = Absent
            \/ fs[Target(r)] = pre[r]
            \/ \E p \in 0..NumMirrors : fs[Target(r)] = ArchRoot(r, p)

\* the swap of a re-installation failed after it had begun to change
\* target_path; the directory is gone when the request is over
C12_Witness ==
    \E r \in Requests :
        /\ Done(r) /\ ~is_update[r] /\ Exists(pre[r])
        /\ error[r].kind \in SwapErrors
        /\ fs[Target(r)] = Absent

\* C13: the happy path.  When the release lookup answered with a
\* zipball_url the GETs ask for the release archive; with three mirrors
\* configured of which the first timed out and the second answered faster
\* than the third, the plan is <<second, third, direct>> and the first GET
\* goes through the second; when a GET succeeds, the archive has a single
\* root folder and nothing fails, target_path holds that root folder itself
\* (downloaded through the prefix of that GET, not nested in an older
\* directory); when load then returns, the request ends in success, with
\* no reload and target_path as the swap left it.
C13_HappyPath ==
    [][\A r \in Requests :
        /\ (/\ pc[r] = "probing" /\ pc'[r] = "download"
            /\ Len(results[r]) = 3
            /\ results[r][1] = Inf
            /\ results[r][2] < results[r][3] /\ results[r][3] < Inf) =>
               /\ attempt_prefixes'[r] = <<proxy_list[2], proxy_list[3], Direct>>
               /\ calls'[r] = Append(calls[r],
                      DownloadUrl(proxy_list[2], base_download_url[r]))
        /\ (pc[r] = "download" /\ pc'[r] = "load") =>
               /\ fs'[Target(r)] = ArchRoot(r, attempt_prefixes[r][idx[r]])
               /\ calls[r][Len(calls[r])] =
                      DownloadUrl(attempt_prefixes[r][idx[r]],
                                  IF api_res[r] = "zipball" THEN "release" ELSE "head")
               /\ calls'[r] = Append(calls[r], HostCall("load", plugin_key[r]))
        /\ (pc[r] = "load" /\ pc'[r] = "done") =>
               /\ result'[r] = "ok" /\ error'[r] = NoException
               /\ messages'[r] = <<"start", "success">>
               /\ fs' = fs
               /\ Reloads(r) = <<>> /\ calls'[r] = calls[r]
      ]_vars

\* three mirrors were probed, the one GET of the request went through the
\* second mirror for the release archive, load was called once: the request
\* succeeded and target_path holds the archive's root folder
C13_Witness ==
    \E r \in Requests :
        /\ Done(r) /\ result[r] = "ok" /\ ~is_update[r]
        /\ calls[r] = <<Call("lookup", Direct, "api"),
                        Call("probe", 1, "test"), Call("probe", 2, "test"),
                        Call("probe", 3, "test"),
                        DownloadUrl(2, "release"),
                        HostCall("load", plugin_key[r])>>
        /\ fs[Target(r)] = ArchRoot(r, 2)
        /\ messages[r] = <<"start", "success">>

\* C14: a failed request reports the stage at which it failed: downloads
\* exhausted with stage download, an empty archive or a missing root
\* directory with stage extract, a failed remove or move of the swap with
\* stage swap, load and reload both failing with stage activate; a failure
\* between opening the archive and the move is always tagged extract or
\* swap.
C14_StageReported ==
    \A r \in Requests :
        (Done(r) /\ result[r] = "failed") =>
            /\ error[r].kind = "all_failed" => reported[r].wrapper = "download"
            /\ error[r].kind \in {"empty_zip", "no_root"} =>
                   reported[r].wrapper = "extract"
            /\ error[r].kind \in SwapErrors => reported[r].wrapper = "swap"
            /\ error[r].kind = "activate" => reported[r].wrapper = "activate"
            /\ error[r].kind \in {"bad_zip", "empty_zip", "extract_io",
                                  "no_root", "swap_rmtree", "swap_move"} =>
                   reported[r].wrapper \in {"extract", "swap"}

\* C15: the GETs ask for the release archive exactly when the release
\* lookup answered 200 with a zipball_url; after a non-200 status, a
\* transport error or an answer without the field they ask for the
\* default-branch archive, and the step that handles the lookup's answer
\* never ends the request; a request that failed on a malformed repository
\* URL issued no network call, and no request that issued one fails so.
C15_SourceResolution ==
    /\ [](\A r \in Requests :
            /\ pc[r] \in {"probing", "download"} =>
                   /\ api_res[r] \in LookupOutcomes
                   /\ base_download_url[r] = "release" <=> api_res[r] = "zipball"
                   /\ base_download_url[r] = "head" <=> api_res[r] # "zipball"
                   /\ \A i \in 1..Len(calls[r]) :
                          calls[r][i].op = "get" =>
                              calls[r][i].url = base_download_url[r]
            /\ (Done(r) /\ error[r].kind = "bad_url") => calls[r] = <<>>)
    /\ [][\A r \in Requests :
            pc[r] = "lookup" =>
                /\ pc'[r] \in {"lookup", "probing", "download"}
                /\ result'[r] = "none"
         ]_vars

\* the release lookup ended in a transport error and the first GET asks
\* for the default-branch archive
C15_Witness ==
    \E r \in Requests :
        /\ pc[r] = "download" /\ api_res[r] = "error"
        /\ calls[r][Len(calls[r])].op = "get"
        /\ calls[r][Len(calls[r])].url = "head"

\* request r took a step
Moved(r) ==
    \/ pc'[r] # pc[r] \/ calls'[r] # calls[r]
    \/ results'[r] # results[r] \/ idx'[r] # idx[r]

\* C16: a request for plugin key P changes the target_path of no other key
\* Q, Q = P + "_backup" included.
C16_OtherTargetsUntouched ==
    [][\A r \in Requests : \A q \in Keys :
            (Moved(r) /\ plugin_key'[r] # q) =>
                fs'[TargetPath(q)] = fs[TargetPath(q)]
      ]_vars

\* C17: the install_plugin handler yields, after its announcement, exactly
\* one more message when the request is over: the failure message when
\* manage_plugin or load_plugin raised, the success message when both
\* returned; the success message is never yielded by a failed request nor
\* before target_path holds the downloaded archive and load was called.
C17_NoFailureEscapes ==
    \A r \in Requests :
        (pc[r] # "idle" /\ ~is_update[r]) =>
            /\ InFlight(r) => messages[r] = <<"start">>
            /\ (Done(r) /\ result[r] = "failed") =>
                   messages[r] = <<"start", "failure">>
            /\ (Done(r) /\ result[r] = "ok") =>
                   /\ messages[r] = <<"start", "success">>
                   /\ error[r] = NoException
                   /\ Len(Loads(r)) = 1
                   /\ \E p \in 0..NumMirrors : fs[Target(r)] = ArchRoot(r, p)
            /\ Done(r) => result[r] \in {"ok", "failed"}

\* load and reload both raised: the handler yielded the failure message
C17_Witness ==
    \E r \in Requests :
        /\ Done(r) /\ ~is_update[r] /\ error[r].kind = "activate"
        /\ messages[r] = <<"start", "failure">>

StageRank(p) ==
    CASE p = "idle" -> 0
      [] p = "lookup" -> 1
      [] p = "probing" -> 2
      [] p = "download" -> 3
      [] p = "load" -> 4
      [] p = "reload" -> 5
      [] p = "done" -> 6

CallRank(op) ==
    CASE op = "lookup" -> 1
      [] op = "probe" -> 2
      [] op = "get" -> 3
      [] op = "load" -> 4
      [] op = "reload" -> 5

\* C18: a request goes through release lookup, probing, downloading,
\* extraction and swap, activation, and its end, in this order and never
\* back; once it is over (failed or not) nothing of it runs; no GET is
\* issued while a probe is pending, probing is skipped only when no proxy is
\* configured; load is called only from the step in which the download
\* succeeded and the swap put the archive's root folder at target_path, and
\* a request that failed before activation called neither load nor reload.
C18_StagesInOrder ==
    /\ [](\A r \in Requests :
            /\ \A i, j \in 1..Len(calls[r]) :
                   i < j => CallRank(calls[r][i].op) <= CallRank(calls[r][j].op)
            /\ Loads(r) # <<>> =>
                   /\ Gets(r) # <<>>
                   /\ fs[Target(r)] = ArchRoot(r, Gets(r)[Len(Gets(r))].prefix)
            /\ (Done(r) /\ error[r].kind \notin {"none", "activate"}) =>
                   (Loads(r) = <<>> /\ Reloads(r) = <<>>))
    /\ [][\A r \in Requests :
            /\ StageRank(pc'[r]) >= StageRank(pc[r])
            /\ Done(r) =>
                   /\ result'[r] = result[r] /\ error'[r] = error[r]
                   /\ calls'[r] = calls[r] /\ messages'[r] = messages[r]
                   /\ fs'[Target(r)] = fs[Target(r)]
            /\ (pc[r] = "probing" /\ calls'[r] # calls[r]) =>
                   \A i \in 1..Len(results[r]) : results[r][i] # 0
            /\ (pc[r] = "lookup" /\ pc'[r] = "download") => proxy_list = <<>>
            /\ (pc[r] = "lookup" /\ pc'[r] = "probing") =>
                   Len(results'[r]) = Len(proxy_list)
            /\ (pc'[r] = "load" /\ pc[r] # "load") =>
                   /\ pc[r] = "download"
                   /\ fs'[Target(r)] = ArchRoot(r, attempt_prefixes[r][idx[r]])
            /\ (pc'[r] = "reload" /\ pc[r] # "reload") => pc[r] = "load"
         ]_vars

\* a request that went through every stage: probes, a failed and a
\* successful GET, the swap, load and reload
C18_Witness ==
    \E r \in Requests :
        /\ Done(r) /\ Len(Reloads(r)) = 1 /\ Len(Gets(r)) >= 2
        /\ \E i \in 1..Len(calls[r]) : calls[r][i].op = "probe"

\* C19: the probes of all configured proxies are issued in one step; a
\* probe that returns changes no other probe's result and issues nothing;
\* the plan is built only when every probe has returned; probing never ends
\* the request, whatever the probes returned; the plan holds exactly the
\* proxies whose probe succeeded, and when every probe failed it is the
\* direct download alone.
C19_ProbingJoin ==
    [][\A r \in Requests :
        /\ (pc[r] = "lookup" /\ pc'[r] = "probing") =>
               /\ calls'[r] = calls[r] \o
                      [i \in 1..Len(proxy_list) |-> Call("probe", proxy_list[i], "test")]
               /\ results'[r] = [i \in 1..Len(proxy_list) |-> 0]
        /\ (pc[r] = "probing" /\ pc'[r] = "probing") =>
               /\ Len(results'[r]) = Len(results[r])
               /\ \A i \in 1..Len(results[r]) :
                      results[r][i] # 0 => results'[r][i] = results[r][i]
               /\ Cardinality({i \in 1..Len(results[r]) :
                                   results'[r][i] # results[r][i]}) <= 1
               /\ calls'[r] = calls[r]
        /\ pc[r] = "probing" =>
               /\ pc'[r] \in {"probing", "download"}
               /\ result'[r] = "none"
        /\ (pc[r] = "probing" /\ pc'[r] = "download") =>
               /\ \A i \in 1..Len(results[r]) : results[r][i] # 0
               /\ {fastest_proxies'[r][n] : n \in 1..Len(fastest_proxies'[r])} =
                      {proxy_list[i] : i \in {m \in 1..Len(results[r]) :
                                                  results[r][m] # Inf}}
               /\ (\A i \in 1..Len(results[r]) : results[r][i] = Inf) =>
                      /\ attempt_prefixes'[r] = <<Direct>>
                      /\ calls'[r] = Append(calls[r],
                             DownloadUrl(Direct, base_download_url[r]))
      ]_vars

\* three proxies are configured, every probe failed: the request goes on
\* with the direct download alone
C19_Witness ==
    \E r \in Requests :
        /\ pc[r] = "download" /\ Len(proxy_list) = 3
        /\ attempt_prefixes[r] = <<Direct>>
        /\ calls[r][Len(calls[r])] = DownloadUrl(Direct, base_download_url[r])

\* C20: no step that leaves the request resolving, probing or downloading
\* changes target_path; on the path without failure target_path changes in
\* one step only, the one in which the download succeeded, the archive was
\* extracted and its root folder found: it then holds that root folder, and
\* no other directory changed in that step; load and reload change no
\* directory.
C20_TargetUntouchedBeforeSwap ==
    [][\A r \in Requests :
        /\ (Moved(r) /\ pc'[r] \in {"lookup", "probing", "download"}) =>
               fs'[TargetPath(plugin_key'[r])] = fs[TargetPath(plugin_key'[r])]
        /\ (/\ pc[r] = "download"
            /\ \/ pc'[r] = "load"
               \/ pc'[r] = "done" /\ result'[r] = "ok") =>
               /\ fs'[Target(r)] = ArchRoot(r, attempt_prefixes[r][idx[r]])
               /\ \A p \in Paths \ {Target(r)} : fs'[p] = fs[p]
        /\ (pc[r] \in {"load", "reload"} /\ Moved(r)) => fs' = fs
      ]_vars

\* a request over an existing target_path is downloading, one GET has
\* already failed, and target_path still holds what it held
C20_Witness ==
    \E r \in Requests :
        /\ pc[r] = "download" /\ idx[r] >= 2
        /\ Exists(pre[r]) /\ fs[Target(r)] = pre[r]

\* the request is inside get_git_repo
InGetGitRepo(r) == pc[r] \in {"lookup", "probing", "download"}

\* C21: a request inside get_git_repo has a scratch directory that exists,
\* that did not exist before the call created it, and that no other request
\* uses; when get_git_repo has returned or raised, on whatever path, the
\* request has no scratch directory and the directory no longer exists: the
\* scratch directories that exist are those of the requests inside
\* get_git_repo.
C21_ScratchFreshAndRemoved ==
    /\ [](/\ \A r \in Requests :
                /\ InGetGitRepo(r) =>
                       (temp_dir[r] # 0 /\ temp_dir[r] \in tmpdirs)
                /\ ~InGetGitRepo(r) => temp_dir[r] = 0
                /\ \A q \in Requests :
                       (q # r /\ InGetGitRepo(q) /\ InGetGitRepo(r)) =>
                           temp_dir[q] # temp_dir[r]
          /\ tmpdirs = {temp_dir[r] : r \in {q \in Requests : InGetGitRepo(q)}})
    /\ [][\A r \in Requests :
            (~InGetGitRepo(r) /\ InGetGitRepo(r)') =>
                (temp_dir'[r] \notin tmpdirs /\ temp_dir'[r] \in tmpdirs')
         ]_vars

\* one request left get_git_repo through a failed swap while another was
\* downloading: the only scratch directory left is the other request's
C21_Witness ==
    \E r, q \in Requests :
        /\ Done(r) /\ error[r].kind \in SwapErrors
        /\ pc[q] = "download" /\ temp_dir[q] = 2
        /\ tmpdirs = {temp_dir[q]}

IsLookup(c) == c.op = "lookup"
IsProbe(c) == c.op = "probe"
Lookups(r) == SelectSeq(calls[r], IsLookup)
Probes(r) == SelectSeq(calls[r], IsProbe)

\* C22: when every awaited call returns, a request that has begun comes to
\* its end; it issues at most one release lookup, at most one probe per
\* configured proxy, at most one GET per prefix of the plan (no prefix is
\* asked twice, so the plan is gone through once), at most one load and one
\* reload.
C22_Terminates ==
    /\ (\E r \in Requests : InFlight(r)) ~> (\A r \in Requests : ~InFlight(r))
    /\ [](\A r \in Requests :
            /\ Len(Lookups(r)) <= 1
            /\ Len(Probes(r)) <= Len(proxy_list)
            /\ \A i, j \in 1..Len(Probes(r)) :
                   i # j => Probes(r)[i].prefix # Probes(r)[j].prefix
            /\ Len(Gets(r)) <= Len(proxy_list) + 1
            /\ \A i, j \in 1..Len(Gets(r)) :
                   i # j => Gets(r)[i].prefix # Gets(r)[j].prefix
            /\ Len(Loads(r)) <= 1 /\ Len(Reloads(r)) <= 1
            /\ Len(calls[r]) <= 2 * Len(proxy_list) + 4)

\* three proxies answered their probes and every prefix of the plan was
\* asked once and failed: the request is over after four GETs
C22_Witness ==
    \E r \in Requests :
        /\ Done(r) /\ error[r].kind = "all_failed"
        /\ Len(proxy_list) = 3 /\ Len(Probes(r)) = 3 /\ Len(Gets(r)) = 4

\* the request is over and its get_git_repo returned without an exception
Installed(r) == Done(r) /\ error[r].kind \in {"none", "activate"}

\* C23: when two requests for the same target_path, each begun before the
\* other's swap, are both over and get_git_repo of at least one of them
\* returned without an exception, target_path holds the root folder of the
\* archive that one of those downloaded.
C23_SuccessfulTreeSurvives ==
    \A r1, r2 \in Requests :
        (/\ r1 # r2 /\ Done(r1) /\ Done(r2)
         /\ Target(r1) = Target(r2)
         /\ pre[r1].kind # "arch" /\ pre[r2].kind # "arch"
         /\ Installed(r1) \/ Installed(r2)) =>
            \E r \in {r1, r2} :
                /\ Installed(r)
                /\ \E p \in 0..NumMirrors : fs[Target(r)] = ArchRoot(r, p)

\* C24: when load and reload both raised, the request is reported as
\* failed and target_path still holds the root folder of the archive the
\* request downloaded; no step of a request that is in load or reload
\* changes a directory, the step that handles the failure included.
C24_NoRollbackAfterActivation ==
    /\ [](\A r \in Requests :
            (Done(r) /\ error[r].kind = "activate") =>
                /\ result[r] = "failed"
                /\ messages[r] = <<"start", "failure">>
                /\ fs[Target(r)] = ArchRoot(r, Gets(r)[Len(Gets(r))].prefix)
                /\ ~Exists(fs[Backup(r)]) \/ fs[Backup(r)] = Orig(Backup(r)))
    /\ [][\A r \in Requests :
            (pc[r] \in {"load", "reload"} /\ pc'[r] # pc[r]) =>
                (fs' = fs /\ tmpdirs' = tmpdirs)
         ]_vars

\* a re-installation replaced the old tree, then load and reload raised:
\* the request failed and the new tree is still there
C24_Witness ==
    \E r \in Requests :
        /\ Done(r) /\ error[r].kind = "activate" /\ result[r] = "failed"
        /\ Exists(pre[r]) /\ fs[Target(r)] # pre[r]
        /\ fs[Target(r)] = ArchRoot(r, Direct)

=============================================================================
